---- MODULE Spec2Model ----
(***************************************************************************)
(* Authentication resolution, auth wrappers, the in-memory token blacklist *)
(* and the device-token lifecycle of sprout-track.                         *)
(*                                                                         *)
(* Times are milliseconds since the epoch (Date.now()); an unset DATETIME  *)
(* column (null) is NoTime.  A handler is one atomic action.  The ORM is   *)
(* an external collaborator: a lookup either answers from the tables or    *)
(* throws (the request's dbFail input), which drives the catch blocks.     *)
(***************************************************************************)
EXTENDS Integers, Sequences, FiniteSets, TLC

VARIABLES clock, deploymentMode, accounts, deviceTokens, tokenBlacklist,
          invalidated, revokedEver, issued, logs, last

vars == <<clock, deploymentMode, accounts, deviceTokens, tokenBlacklist,
          invalidated, revokedEver, issued, logs, last>>

\* ------------------------------------------------------------------ bounds
MaxClock == 1500
MaxSessionClock == 3000
MaxLogs == 1
MaxIssued == 1

\* --------------------------------------------------------------- constants
StartMs == 1000
TickMs == 500
MsPerSecond == 1000
PreviewLen == 8

Null == "null"
NoTime == 0

\* ------------------------------------------------------- relational tables
FamilyIds == {"f1", "f2"}
AccountIds == {"a1"}

\* Caretaker rows: c0 is the system caretaker (loginId '00'), c9 a
\* soft-deleted system caretaker, c1/c3 family admins, c2 a plain user.
Caretakers ==
  [c0 |-> [role |-> "USER",  type |-> "System", loginId |-> "00", familyId |-> "f1", deleted |-> FALSE],
   c1 |-> [role |-> "ADMIN", type |-> "Parent", loginId |-> "01", familyId |-> "f1", deleted |-> FALSE],
   c2 |-> [role |-> "USER",  type |-> "Nanny",  loginId |-> "02", familyId |-> "f1", deleted |-> FALSE],
   c3 |-> [role |-> "ADMIN", type |-> "Parent", loginId |-> "01", familyId |-> "f2", deleted |-> FALSE],
   c9 |-> [role |-> "USER",  type |-> "System", loginId |-> "00", familyId |-> "f1", deleted |-> TRUE]]

CaretakerIds == DOMAIN Caretakers

\* FamilySetup rows: setup token -> family it is bound to (Null: not yet bound).
FamilySetups == [s1 |-> "f1", s2 |-> Null]

\* family.account: the account row whose familyId is f, if any.
FamilyAccount(f) ==
  IF \E a \in AccountIds : accounts[a].familyId = f
    THEN accounts[CHOOSE a \in AccountIds : accounts[a].familyId = f]
    ELSE [closed |-> FALSE, betaparticipant |-> FALSE, trialEnds |-> NoTime,
          planExpires |-> NoTime, planType |-> Null, familyId |-> Null,
          caretakerId |-> Null]

HasFamilyAccount(f) == \E a \in AccountIds : accounts[a].familyId = f

\* ------------------------------------------------------------------- JWTs
\* A bearer token is a record: kind tells which payload flags are set
\* (isSetupAuth+setupToken / isAccountAuth / neither), sub is
\* setupToken / accountId / id, exp and iat are in seconds (exp 0: absent).
Jwt(kind, sub, role, type, fam, sys, authType, exp, iat, sig) ==
  [kind |-> kind, sub |-> sub, role |-> role, type |-> type, familyId |-> fam,
   isSysAdmin |-> sys, authType |-> authType, exp |-> exp, iat |-> iat,
   sigOK |-> sig]

EmptyToken == Jwt("empty", Null, Null, Null, Null, FALSE, Null, 0, 0, FALSE)
GarbageToken == Jwt("garbage", Null, Null, Null, Null, FALSE, Null, 0, 0, FALSE)

CaretakerJwt(c, exp) ==
  Jwt("regular", c, Caretakers[c].role, Caretakers[c].type,
      Caretakers[c].familyId, FALSE, Null, exp, 1, TRUE)

SysAdminJwt(exp) ==
  Jwt("regular", "sysadmin", "ADMIN", "SYSADMIN", Null, TRUE, "SYSADMIN", exp, 1, TRUE)

SetupJwt(s, exp) ==
  Jwt("setup", s, Null, Null, Null, FALSE, Null, exp, 1, TRUE)

AccountJwt(a, exp) ==
  Jwt("account", a, Null, Null, Null, FALSE, Null, exp, 1, TRUE)

Forged(t) == [t EXCEPT !.sigOK = FALSE]

\* jwt.verify: the payload is returned only for a well-formed token with a
\* valid signature whose exp, if present, is still ahead of the clock in
\* whole seconds (jsonwebtoken: clockTimestamp >= exp throws).
JwtVerifyOK(t, now) ==
  /\ t.kind \notin {"empty", "garbage"}
  /\ t.sigOK
  /\ (t.exp # 0 => (now \div MsPerSecond) < t.exp)

\* jwt.decode: no signature or expiry check; null for a malformed token.
JwtDecodeOK(t) == t.kind \notin {"empty", "garbage"}

\* ----------------------------------------------------------- AuthResult
AuthFail(err) ==
  [authenticated |-> FALSE, caretakerId |-> Null, caretakerType |-> Null,
   caretakerRole |-> Null, familyId |-> Null, isSysAdmin |-> FALSE,
   isSetupAuth |-> FALSE, setupToken |-> Null, isAccountAuth |-> FALSE,
   isAccountOwner |-> FALSE, isExpired |-> FALSE, authType |-> Null,
   error |-> err]

AuthOK(cid, ctype, role, fam, sys, authType) ==
  [authenticated |-> TRUE, caretakerId |-> cid, caretakerType |-> ctype,
   caretakerRole |-> role, familyId |-> fam, isSysAdmin |-> sys,
   isSetupAuth |-> FALSE, setupToken |-> Null, isAccountAuth |-> FALSE,
   isAccountOwner |-> FALSE, isExpired |-> FALSE, authType |-> authType,
   error |-> Null]

\* ------------------------------------------------------------- requests
\* One request shape for every route: Authorization header (scheme, token),
\* caretakerId cookie, familyId / id query parameters, first path segment
\* and first path segment of the referer, the device-token
\* string carried in header, body or form, the JSON body's name / expiresAt,
\* the body kind, and the set of ORM calls that throw while it is served.
BaseReq ==
  [scheme |-> "none", token |-> EmptyToken, cookie |-> Null, familyId |-> Null,
   path |-> "api", referer |-> Null, id |-> 0, dtoken |-> Null,
   name |-> "missing", expiresAt |-> NoTime, body |-> "ok", dbFail |-> {}]

Bearer(t) == [BaseReq EXCEPT !.scheme = "Bearer", !.token = t]

\* ------------------------------------------------- getAuthenticatedUser
\* Soft expiration from trial / plan dates (the same if / else-if chain is
\* used by the account, regular-token and cookie branches).
\* Mutant: planExpires is looked at before trialEnds.
ExpiredByDates_PlanFirst(acct, now) ==
  IF acct.planExpires # NoTime THEN now > acct.planExpires
  ELSE IF acct.trialEnds # NoTime THEN now > acct.trialEnds
  ELSE acct.planType = Null

ExpiredByDates(acct, now) ==
  IF acct.trialEnds # NoTime THEN now > acct.trialEnds
  ELSE IF acct.planExpires # NoTime THEN now > acct.planExpires
  ELSE acct.planType = Null

IsSaasMode == deploymentMode = "saas"

AccountTokenAuth(t, now, dbThrows) ==
  IF dbThrows THEN AuthFail("Failed to verify account status")
  ELSE IF t.sub \notin AccountIds THEN AuthFail("Account not found")
  ELSE LET account == accounts[t.sub]
           isExpired == IF IsSaasMode /\ account.familyId # Null
                           /\ ~account.betaparticipant
                          THEN ExpiredByDates(account, now) ELSE FALSE
           base == [AuthOK(t.sub, "ACCOUNT", "OWNER", account.familyId, FALSE, Null)
                      EXCEPT !.isAccountAuth = TRUE, !.isAccountOwner = TRUE,
                             !.isExpired = isExpired]
       IN IF account.closed THEN AuthFail("Account is closed")
          ELSE IF account.caretakerId # Null
            THEN [base EXCEPT !.caretakerId = account.caretakerId,
                              !.caretakerType = Caretakers[account.caretakerId].type,
                              !.caretakerRole = Caretakers[account.caretakerId].role]
            ELSE base

\* Mutant: the closed check of the family's account is missing.
RegularTokenAuth_NoClosedCheck(t, now, dbThrows) ==
  LET checked == t.familyId # Null /\ ~t.isSysAdmin /\ ~dbThrows
                 /\ t.familyId \in FamilyIds /\ HasFamilyAccount(t.familyId)
      account == FamilyAccount(t.familyId)
      isExpired == IF checked /\ IsSaasMode /\ ~account.betaparticipant
                     THEN ExpiredByDates(account, now) ELSE FALSE
  IN [AuthOK(IF t.isSysAdmin THEN Null ELSE t.sub, t.type, t.role,
             t.familyId, t.isSysAdmin,
             IF t.authType # Null THEN t.authType ELSE "CARETAKER")
        EXCEPT !.isExpired = isExpired]

RegularTokenAuth(t, now, dbThrows) ==
  LET checked == t.familyId # Null /\ ~t.isSysAdmin /\ ~dbThrows
                 /\ t.familyId \in FamilyIds /\ HasFamilyAccount(t.familyId)
      account == FamilyAccount(t.familyId)
      isExpired == IF checked /\ IsSaasMode /\ ~account.betaparticipant
                     THEN ExpiredByDates(account, now) ELSE FALSE
  IN IF checked /\ account.closed THEN AuthFail("Family account is closed")
     ELSE [AuthOK(IF t.isSysAdmin THEN Null ELSE t.sub, t.type, t.role,
                  t.familyId, t.isSysAdmin,
                  IF t.authType # Null THEN t.authType ELSE "CARETAKER")
             EXCEPT !.isExpired = isExpired]

CookieAuth(cid, now, dbThrows) ==
  IF dbThrows THEN AuthFail("Authentication verification failed")
  ELSE IF cid \in CaretakerIds /\ ~Caretakers[cid].deleted
    THEN LET fam == Caretakers[cid].familyId
             has == HasFamilyAccount(fam)
             account == FamilyAccount(fam)
             isExpired == IF has /\ IsSaasMode /\ ~account.betaparticipant
                            THEN ExpiredByDates(account, now) ELSE FALSE
         IN IF has /\ account.closed THEN AuthFail("Family account is closed")
            ELSE [AuthOK(cid, Caretakers[cid].type, Caretakers[cid].role,
                         fam, FALSE, "CARETAKER")
                    EXCEPT !.isExpired = isExpired]
    ELSE AuthFail("No valid authentication found")

Blacklisted(t) == \E e \in tokenBlacklist : e.token = t

\* Mutant: a token that fails verification falls back to the cookie.
GetAuthenticatedUser_CookieFallback(req) ==
  LET hasToken == req.scheme = "Bearer" /\ req.token.kind # "empty"
      t == req.token
      dbThrows == "auth" \in req.dbFail
  IN IF hasToken /\ Blacklisted(t) THEN AuthFail("Token has been invalidated")
     ELSE IF hasToken /\ JwtVerifyOK(t, clock)
       THEN IF t.kind = "setup"
              THEN [AuthOK(Null, "Setup", "ADMIN", Null, FALSE, Null)
                      EXCEPT !.isSetupAuth = TRUE, !.setupToken = t.sub]
            ELSE IF t.kind = "account" THEN AccountTokenAuth(t, clock, dbThrows)
            ELSE RegularTokenAuth(t, clock, dbThrows)
     ELSE IF req.cookie # Null THEN CookieAuth(req.cookie, clock, dbThrows)
     ELSE AuthFail("No valid authentication found")

GetAuthenticatedUser(req) ==
  LET hasToken == req.scheme = "Bearer" /\ req.token.kind # "empty"
      t == req.token
      dbThrows == "auth" \in req.dbFail
  IN IF hasToken
       THEN IF Blacklisted(t) THEN AuthFail("Token has been invalidated")
            ELSE IF ~JwtVerifyOK(t, clock) THEN AuthFail("Invalid or expired token")
            ELSE IF t.kind = "setup"
              THEN [AuthOK(Null, "Setup", "ADMIN", Null, FALSE, Null)
                      EXCEPT !.isSetupAuth = TRUE, !.setupToken = t.sub]
            ELSE IF t.kind = "account" THEN AccountTokenAuth(t, clock, dbThrows)
            ELSE RegularTokenAuth(t, clock, dbThrows)
     ELSE IF req.cookie # Null THEN CookieAuth(req.cookie, clock, dbThrows)
     ELSE AuthFail("No valid authentication found")

\* ------------------------------------------------------------- wrappers
\* What a wrapper does with a request: either it answers itself (called
\* FALSE, with status and error) or it invokes the wrapped handler with ctx.
Reject(status, err) ==
  [called |-> FALSE, status |-> status, error |-> err, ctx |-> AuthFail(Null)]

Invoke(ctx) ==
  [called |-> TRUE, status |-> 200, error |-> Null, ctx |-> ctx]

withAuth(req) ==
  LET authResult == GetAuthenticatedUser(req)
  IN IF ~authResult.authenticated THEN Reject(401, "Authentication required")
     ELSE Invoke(authResult)

\* prisma.caretaker.findFirst({id, loginId: '00', deletedAt: null}); a
\* throwing lookup leaves isSystemCaretaker false.
\* Mutant: the deletedAt: null filter is missing.
IsSystemCaretaker_IgnoresDeleted(cid, dbThrows) ==
  /\ cid # Null
  /\ ~dbThrows
  /\ cid \in CaretakerIds
  /\ Caretakers[cid].loginId = "00"

IsSystemCaretaker(cid, dbThrows) ==
  /\ cid # Null
  /\ ~dbThrows
  /\ cid \in CaretakerIds
  /\ Caretakers[cid].loginId = "00"
  /\ ~Caretakers[cid].deleted

\* Mutant: the role check comes before the authentication check.
withAdminAuth_RoleFirst(req) ==
  LET authResult == GetAuthenticatedUser(req)
      isSystemCaretaker ==
        IsSystemCaretaker(authResult.caretakerId, "wrapper" \in req.dbFail)
  IN IF authResult.caretakerRole # "ADMIN" /\ ~isSystemCaretaker
        /\ ~authResult.isSysAdmin
       THEN Reject(403, "Admin access required")
     ELSE IF ~authResult.authenticated THEN Reject(401, "Authentication required")
     ELSE Invoke(authResult)

withAdminAuth(req) ==
  LET authResult == GetAuthenticatedUser(req)
      isSystemCaretaker ==
        IsSystemCaretaker(authResult.caretakerId, "wrapper" \in req.dbFail)
  IN IF ~authResult.authenticated THEN Reject(401, "Authentication required")
     ELSE IF authResult.caretakerRole # "ADMIN" /\ ~isSystemCaretaker
             /\ ~authResult.isSysAdmin
       THEN Reject(403, "Admin access required")
     ELSE Invoke(authResult)

\* Mutant: the ADMIN role is accepted in place of isSysAdmin.
withSysAdminAuth_AdminRole(req) ==
  LET authResult == GetAuthenticatedUser(req)
  IN IF ~authResult.authenticated THEN Reject(401, "Authentication required")
     ELSE IF ~authResult.isSysAdmin /\ authResult.caretakerRole # "ADMIN"
       THEN Reject(403, "System administrator access required")
     ELSE Invoke(authResult)

withSysAdminAuth(req) ==
  LET authResult == GetAuthenticatedUser(req)
  IN IF ~authResult.authenticated THEN Reject(401, "Authentication required")
     ELSE IF ~authResult.isSysAdmin
       THEN Reject(403, "System administrator access required")
     ELSE Invoke(authResult)

withAccountOwner(req) ==
  LET authResult == GetAuthenticatedUser(req)
  IN IF ~authResult.authenticated THEN Reject(401, "Authentication required")
     ELSE IF ~authResult.isAccountOwner /\ ~authResult.isSysAdmin
       THEN Reject(403, "Account owner access required")
     ELSE Invoke(authResult)

\* A first path segment names a family unless it starts with api,
\* family-manager or setup; the slug of family f is written f here.
SlugFamily(seg, dbThrows) ==
  IF seg # Null /\ seg \in FamilyIds /\ ~dbThrows THEN seg ELSE Null

SetupContext(req, authResult) ==
  LET dbThrows == "wrapper" \in req.dbFail
      known == authResult.setupToken \in DOMAIN FamilySetups
      bound == IF known THEN FamilySetups[authResult.setupToken] ELSE Null
  IN IF req.familyId = Null THEN Invoke(authResult)
     ELSE IF dbThrows THEN Reject(500, "Failed to validate setup authorization")
     ELSE IF known /\ (bound = req.familyId \/ bound = Null)
       THEN Invoke([authResult EXCEPT !.familyId = req.familyId])
     ELSE Reject(403, "Setup token is not authorized for this family")

SysAdminContext(req, authResult) ==
  LET dbThrows == "wrapper" \in req.dbFail
      fromQuery == req.familyId
      fromPath == IF fromQuery # Null THEN fromQuery
                  ELSE SlugFamily(req.path, dbThrows)
      fromReferer == IF fromPath # Null THEN fromPath
                     ELSE SlugFamily(req.referer, dbThrows)
  IN Invoke([authResult EXCEPT !.familyId =
               IF fromReferer # Null THEN fromReferer ELSE authResult.familyId])

withAuthContext(req) ==
  LET authResult == GetAuthenticatedUser(req)
  IN IF ~authResult.authenticated THEN Reject(401, "Authentication required")
     ELSE IF authResult.isSetupAuth /\ authResult.setupToken # Null
       THEN SetupContext(req, authResult)
     ELSE IF authResult.isSysAdmin THEN SysAdminContext(req, authResult)
     ELSE Invoke(authResult)

\* -------------------------------------------------------- device tokens
\* DeviceToken rows, in creation order; a row's id is its position.  The
\* token column is unique.  The columns no guard reads (name, createdAt,
\* updatedAt, and lastUsedAt with its un-awaited fire-and-forget update)
\* are left out.
TokenStrings == {"d1", "d2"}
MaxTokens == Cardinality(TokenStrings)

TokenRow(tok) ==
  IF \E i \in DOMAIN deviceTokens : deviceTokens[i].token = tok
    THEN CHOOSE i \in DOMAIN deviceTokens : deviceTokens[i].token = tok
    ELSE 0

\* Mutant: the revokedAt check is missing.
validateDeviceToken_NoRevokedCheck(tok, dbThrows) ==
  LET i == TokenRow(tok)
      deviceToken == deviceTokens[i]
  IN IF dbThrows THEN AuthFail("Device token validation failed")
     ELSE IF i = 0 THEN AuthFail("Invalid device token")
     ELSE IF deviceToken.expiresAt # NoTime /\ clock > deviceToken.expiresAt
       THEN AuthFail("Device token has expired")
     ELSE AuthOK(deviceToken.caretakerId, Caretakers[deviceToken.caretakerId].type,
                 Caretakers[deviceToken.caretakerId].role, deviceToken.familyId,
                 FALSE, "DEVICE_TOKEN")

\* Mutant: the expiry check runs before the revokedAt check.
validateDeviceToken_ExpiredFirst(tok, dbThrows) ==
  LET i == TokenRow(tok)
      deviceToken == deviceTokens[i]
  IN IF dbThrows THEN AuthFail("Device token validation failed")
     ELSE IF i = 0 THEN AuthFail("Invalid device token")
     ELSE IF deviceToken.expiresAt # NoTime /\ clock > deviceToken.expiresAt
       THEN AuthFail("Device token has expired")
     ELSE IF deviceToken.revokedAt # NoTime
       THEN AuthFail("Device token has been revoked")
     ELSE AuthOK(deviceToken.caretakerId, Caretakers[deviceToken.caretakerId].type,
                 Caretakers[deviceToken.caretakerId].role, deviceToken.familyId,
                 FALSE, "DEVICE_TOKEN")

validateDeviceToken(tok, dbThrows) ==
  LET i == TokenRow(tok)
      deviceToken == deviceTokens[i]
  IN IF dbThrows THEN AuthFail("Device token validation failed")
     ELSE IF i = 0 THEN AuthFail("Invalid device token")
     ELSE IF deviceToken.revokedAt # NoTime
       THEN AuthFail("Device token has been revoked")
     ELSE IF deviceToken.expiresAt # NoTime /\ clock > deviceToken.expiresAt
       THEN AuthFail("Device token has expired")
     ELSE AuthOK(deviceToken.caretakerId, Caretakers[deviceToken.caretakerId].type,
                 Caretakers[deviceToken.caretakerId].role, deviceToken.familyId,
                 FALSE, "DEVICE_TOKEN")

\* ----------------------------------------------------- last operation
\* What the last operation was asked, when, and what it answered.
Done(op, req, status, err, called, auth, ctx, wrote, jwt) ==
  [op |-> op, req |-> req, at |-> clock, status |-> status, error |-> err,
   called |-> called, auth |-> auth, ctx |-> ctx, wrote |-> wrote, jwt |-> jwt,
   data |-> {}]

\* ------------------------------------------------ /api/device-tokens
\* !name || typeof name !== 'string' || !name.trim(): the body's name is
\* "missing" (undefined or ''), "number" (truthy, not a string), "blank"
\* (whitespace only) or a usable string.
NameOK(name) == name # "missing" /\ name # "number" /\ name # "blank"

\* prisma.deviceToken.create throws when the ORM fails, when the caretaker
\* or family to connect does not exist, when new Date(expiresAt) is an
\* Invalid Date (body "badDate"), or when the token string collides with an
\* existing row.
CreateThrows(req, ctx, tok) ==
  \/ "handler" \in req.dbFail
  \/ ctx.caretakerId \notin CaretakerIds
  \/ ctx.familyId \notin FamilyIds
  \/ req.body = "badDate"
  \/ TokenRow(tok) # 0

\* Mutant: the familyId check is missing.
handlePostResult_NoFamilyCheck(req, ctx, tok) ==
  IF ctx.caretakerRole # "ADMIN" /\ ~ctx.isSysAdmin
    THEN [status |-> 403, error |-> "Admin access required to manage device tokens"]
  ELSE IF req.body = "unparseable"
    THEN [status |-> 500, error |-> "Failed to create device token"]
  ELSE IF ~NameOK(req.name)
    THEN [status |-> 400, error |-> "Device name is required"]
  ELSE IF CreateThrows(req, ctx, tok)
    THEN [status |-> 500, error |-> "Failed to create device token"]
  ELSE [status |-> 200, error |-> Null]

handlePostResult(req, ctx, tok) ==
  IF ctx.caretakerRole # "ADMIN" /\ ~ctx.isSysAdmin
    THEN [status |-> 403, error |-> "Admin access required to manage device tokens"]
  ELSE IF ctx.familyId = Null
    THEN [status |-> 403, error |-> "User is not associated with a family."]
  ELSE IF req.body = "unparseable"
    THEN [status |-> 500, error |-> "Failed to create device token"]
  ELSE IF ~NameOK(req.name)
    THEN [status |-> 400, error |-> "Device name is required"]
  ELSE IF CreateThrows(req, ctx, tok)
    THEN [status |-> 500, error |-> "Failed to create device token"]
  ELSE [status |-> 200, error |-> Null]

NewRow(req, ctx, tok) ==
  [id |-> Len(deviceTokens) + 1, token |-> tok, familyId |-> ctx.familyId,
   caretakerId |-> ctx.caretakerId,
   expiresAt |-> IF req.expiresAt # 0 THEN req.expiresAt ELSE NoTime,
   revokedAt |-> NoTime]

\* randomBytes(32).toString('hex'): a token is 64 hexadecimal characters.
\* TokenChars spells out the characters of the token strings of the model.
TokenHexLen == 64

TokenChars(tok) ==
  [i \in 1 .. TokenHexLen |->
     IF tok = "d1" THEN (IF i % 2 = 1 THEN "d" ELSE "1")
     ELSE IF i <= PreviewLen THEN "d" ELSE "2"]

Ellipsis == <<".", ".", ".">>

\* t.token.substring(0, 8) + '...'
tokenPreview(chars) ==
  SubSeq(chars, 1, IF Len(chars) < PreviewLen THEN Len(chars) ELSE PreviewLen)
    \o Ellipsis

\* The data of a successful POST: the created row with its full token.
\* A field the payload does not carry is the empty sequence.
CreatedData(row) ==
  {[id |-> row.id, token |-> TokenChars(row.token), tokenPreview |-> << >>,
    expiresAt |-> row.expiresAt, revokedAt |-> NoTime, isActive |-> TRUE]}

MaskedRow(t, now) ==
  [id |-> t.id, token |-> << >>, tokenPreview |-> tokenPreview(TokenChars(t.token)),
   expiresAt |-> t.expiresAt, revokedAt |-> t.revokedAt,
   isActive |-> t.revokedAt = NoTime /\ (t.expiresAt = NoTime \/ now < t.expiresAt)]

\* Mutant: findMany has no familyId filter.
maskedTokens_AllFamilies(familyId, now) ==
  {MaskedRow(deviceTokens[i], now) : i \in DOMAIN deviceTokens}

\* findMany({where: {familyId}}) mapped to the masked rows. The createdAt
\* order of the list is not modelled: the payload is the set of its items.
maskedTokens(familyId, now) ==
  {MaskedRow(deviceTokens[i], now) :
     i \in {j \in DOMAIN deviceTokens : deviceTokens[j].familyId = familyId}}

handleGetResult(req, ctx) ==
  IF ctx.caretakerRole # "ADMIN" /\ ~ctx.isSysAdmin
    THEN [status |-> 403, error |-> "Admin access required", data |-> {}]
  ELSE IF ctx.familyId = Null
    THEN [status |-> 403, error |-> "User is not associated with a family.",
          data |-> {}]
  ELSE IF "handler" \in req.dbFail
    THEN [status |-> 500, error |-> "Failed to list device tokens", data |-> {}]
  ELSE [status |-> 200, error |-> Null, data |-> maskedTokens(ctx.familyId, clock)]

\* Mutant: findFirst looks the row up by id alone, without the familyId.
handleDeleteResult_NoFamilyFilter(req, ctx) ==
  IF ctx.caretakerRole # "ADMIN" /\ ~ctx.isSysAdmin
    THEN [status |-> 403, error |-> "Admin access required"]
  ELSE IF ctx.familyId = Null
    THEN [status |-> 403, error |-> "User is not associated with a family."]
  ELSE IF req.id = 0
    THEN [status |-> 400, error |-> "Device token ID is required"]
  ELSE IF "handler" \in req.dbFail
    THEN [status |-> 500, error |-> "Failed to revoke device token"]
  ELSE IF req.id \notin DOMAIN deviceTokens
    THEN [status |-> 404, error |-> "Device token not found"]
  ELSE [status |-> 200, error |-> Null]

handleDeleteResult(req, ctx) ==
  IF ctx.caretakerRole # "ADMIN" /\ ~ctx.isSysAdmin
    THEN [status |-> 403, error |-> "Admin access required"]
  ELSE IF ctx.familyId = Null
    THEN [status |-> 403, error |-> "User is not associated with a family."]
  ELSE IF req.id = 0
    THEN [status |-> 400, error |-> "Device token ID is required"]
  ELSE IF "handler" \in req.dbFail
    THEN [status |-> 500, error |-> "Failed to revoke device token"]
  ELSE IF ~(req.id \in DOMAIN deviceTokens
            /\ deviceTokens[req.id].familyId = ctx.familyId)
    THEN [status |-> 404, error |-> "Device token not found"]
  ELSE [status |-> 200, error |-> Null]

\* ------------------------------------------- /api/voice/log, kindle/log
\* Baby rows: family f1 has the single active baby b1, family f2 has none.
FamilyBaby(f) == IF f = "f1" THEN "b1" ELSE Null

LogRow(kind, auth) ==
  [kind |-> kind, familyId |-> auth.familyId, caretakerId |-> auth.caretakerId,
   time |-> clock, endTime |-> NoTime]

\* Most recent sleep row of the family without an end time (0: none).
ActiveSleep(f) ==
  LET open == {i \in DOMAIN logs : logs[i].kind = "sleep" /\ logs[i].familyId = f
                                   /\ logs[i].endTime = NoTime}
  IN IF open = {} THEN 0 ELSE CHOOSE i \in open : \A j \in open : j <= i

CreateKinds == [bottle |-> "feed", breast |-> "feed", diaper |-> "diaper",
                medicine |-> "medicine"]

\* Mutant: the answer of validateDeviceToken is not tested.
voiceLog_NoAuthTest(req) ==
  LET auth == validateDeviceToken(req.dtoken, "auth" \in req.dbFail)
      fail(st, err) == [status |-> st, error |-> err, logs |-> logs, wrote |-> FALSE]
  IN IF req.scheme # "Bearer"
       THEN fail(401, "Missing Authorization: Bearer {device_token} header")
     ELSE IF req.body = "unparseable" \/ "handler" \in req.dbFail
       THEN fail(500, "An error occurred processing the request")
     ELSE IF req.body = "noAction" THEN fail(400, "Missing required field: action")
     ELSE IF FamilyBaby(auth.familyId) = Null \/ req.body = "noBaby"
       THEN fail(400, "Baby not found")
     ELSE fail(400, "Unknown action")

\* Outcome of POST /api/voice/log: status, error and the log table after it.
voiceLog(req) ==
  LET auth == validateDeviceToken(req.dtoken, "auth" \in req.dbFail)
      fail(st, err) == [status |-> st, error |-> err, logs |-> logs, wrote |-> FALSE]
      sleepRow == ActiveSleep(auth.familyId)
  IN IF req.scheme # "Bearer"
       THEN fail(401, "Missing Authorization: Bearer {device_token} header")
     ELSE IF ~auth.authenticated \/ auth.familyId = Null
       THEN fail(401, IF auth.error # Null THEN auth.error
                      ELSE "Invalid or expired device token")
     ELSE IF req.body = "unparseable" \/ "handler" \in req.dbFail
       THEN fail(500, "An error occurred processing the request")
     ELSE IF req.body = "noAction" THEN fail(400, "Missing required field: action")
     ELSE IF FamilyBaby(auth.familyId) = Null \/ req.body = "noBaby"
       THEN fail(400, "Baby not found")
     ELSE IF req.body \in {"bottle", "diaper"}
       THEN [status |-> 200, error |-> Null, wrote |-> TRUE,
             logs |-> Append(logs, LogRow(CreateKinds[req.body], auth))]
     ELSE IF req.body = "sleep-start"
       THEN [status |-> 200, error |-> Null, wrote |-> TRUE,
             logs |-> Append(logs, LogRow("sleep", auth))]
     ELSE IF req.body = "sleep-end"
       THEN IF sleepRow = 0 THEN fail(400, "No active sleep session found")
            ELSE [status |-> 200, error |-> Null, wrote |-> TRUE,
                  logs |-> [logs EXCEPT ![sleepRow].endTime = clock]]
     ELSE IF req.body = "medicine-missing"
       THEN fail(400, "Missing required field: medicine (name of the medicine)")
     ELSE fail(400, "Unknown action")

\* Outcome of POST /api/kindle/log: every answer is a 303 redirect, with the
\* error text in the query string on failure.
kindleLog(req) ==
  LET auth == validateDeviceToken(req.dtoken, "auth" \in req.dbFail)
      fail(err) == [status |-> 303, error |-> err, logs |-> logs, wrote |-> FALSE]
      sleepRow == ActiveSleep(auth.familyId)
  IN IF req.body = "unparseable" THEN fail("An error occurred")
     ELSE IF req.dtoken = Null THEN fail("Missing authentication token")
     ELSE IF ~auth.authenticated \/ auth.familyId = Null
       THEN fail(IF auth.error # Null THEN auth.error ELSE "Authentication failed")
     ELSE IF "handler" \in req.dbFail THEN fail("An error occurred")
     ELSE IF FamilyBaby(auth.familyId) = Null \/ req.body = "noBaby"
       THEN fail("Baby not found")
     ELSE IF req.body \in {"bottle", "diaper"}
       THEN [status |-> 303, error |-> Null, wrote |-> TRUE,
             logs |-> Append(logs, LogRow(CreateKinds[req.body], auth))]
     ELSE IF req.body = "sleep-start"
       THEN [status |-> 303, error |-> Null, wrote |-> TRUE,
             logs |-> Append(logs, LogRow("sleep", auth))]
     ELSE IF req.body = "sleep-end"
       THEN [status |-> 303, error |-> Null, wrote |-> sleepRow # 0,
             logs |-> IF sleepRow = 0 THEN logs
                      ELSE [logs EXCEPT ![sleepRow].endTime = clock]]
     ELSE IF req.body = "medicine-missing" THEN fail("Medicine selection required")
     ELSE fail("Unknown action")

\* --------------------------------------------------- /api/auth/magic-link
\* jwt.sign without expiresIn: iat is the clock in whole seconds, no exp.
MagicJwt(auth) ==
  LET cid == auth.caretakerId
  IN Jwt("regular", IF cid # Null THEN cid ELSE "device",
         IF cid \in CaretakerIds THEN Caretakers[cid].role ELSE "USER",
         IF cid \in CaretakerIds THEN Caretakers[cid].type ELSE Null,
         auth.familyId, FALSE, "DEVICE_TOKEN", 0, clock \div MsPerSecond, TRUE)

\* Mutant: an unknown, revoked or expired device token is answered with a
\* redirect instead of a 401.
magicLink_Redirects(req) ==
  LET auth == validateDeviceToken(req.dtoken, "auth" \in req.dbFail)
      fail(st, err) == [status |-> st, error |-> err, jwt |-> EmptyToken]
  IN IF req.body = "unparseable" THEN fail(500, "Authentication failed")
     ELSE IF req.dtoken = Null THEN fail(400, "Device token is required")
     ELSE IF ~auth.authenticated \/ auth.familyId = Null
       THEN fail(303, IF auth.error # Null THEN auth.error
                      ELSE "Invalid or expired device token")
     ELSE IF "handler" \in req.dbFail THEN fail(500, "Authentication failed")
     ELSE [status |-> 200, error |-> Null, jwt |-> MagicJwt(auth)]

magicLink(req) ==
  LET auth == validateDeviceToken(req.dtoken, "auth" \in req.dbFail)
      fail(st, err) == [status |-> st, error |-> err, jwt |-> EmptyToken]
  IN IF req.body = "unparseable" THEN fail(500, "Authentication failed")
     ELSE IF req.dtoken = Null THEN fail(400, "Device token is required")
     ELSE IF ~auth.authenticated \/ auth.familyId = Null
       THEN fail(401, IF auth.error # Null THEN auth.error
                      ELSE "Invalid or expired device token")
     ELSE IF "handler" \in req.dbFail THEN fail(500, "Authentication failed")
     ELSE [status |-> 200, error |-> Null, jwt |-> MagicJwt(auth)]

\* ---------------------------------------------------------------- actions
\* Time passes, up to limit.
Tick(limit) ==
  /\ clock < limit
  /\ clock' = clock + TickMs
  /\ UNCHANGED <<deploymentMode, accounts, deviceTokens, tokenBlacklist,
                 invalidated, revokedEver, issued, logs, last>>

NoJwt == EmptyToken

\* A route wrapped by one of the five wrappers, with a handler that only
\* answers 200.
Wrapped(op, w, req) ==
  /\ last' = Done(op, req, w.status, w.error, w.called,
                  GetAuthenticatedUser(req), w.ctx, FALSE, NoJwt)
  /\ UNCHANGED <<clock, deploymentMode, accounts, deviceTokens, tokenBlacklist,
                 invalidated, revokedEver, issued, logs>>

WithAuth(req) == Wrapped("withAuth", withAuth(req), req)
WithAdminAuth(req) == Wrapped("withAdminAuth", withAdminAuth(req), req)
WithSysAdminAuth(req) == Wrapped("withSysAdminAuth", withSysAdminAuth(req), req)
WithAccountOwner(req) == Wrapped("withAccountOwner", withAccountOwner(req), req)
WithAuthContext(req) == Wrapped("withAuthContext", withAuthContext(req), req)

\* POST /api/device-tokens = withAuthContext(handlePost); tok is the value
\* of randomBytes(32).toString('hex').
DevicePost(req, tok) ==
  \E w \in {withAuthContext(req)} :
  \E r \in {IF w.called THEN handlePostResult(req, w.ctx, tok)
            ELSE [status |-> w.status, error |-> w.error]} :
  LET created == w.called /\ r.status = 200
  IN /\ created => Len(deviceTokens) < MaxTokens
     /\ deviceTokens' = IF created
                          THEN Append(deviceTokens, NewRow(req, w.ctx, tok))
                          ELSE deviceTokens
     /\ last' = [Done("devicePost", req, r.status, r.error, w.called,
                      GetAuthenticatedUser(req), w.ctx, created, NoJwt)
                   EXCEPT !.data = IF created
                                     THEN CreatedData(NewRow(req, w.ctx, tok))
                                     ELSE {}]
     /\ UNCHANGED <<clock, deploymentMode, accounts, tokenBlacklist, invalidated, revokedEver,
                   issued, logs>>

\* GET /api/device-tokens = withAuthContext(handleGet).
DeviceGet(req) ==
  \E w \in {withAuthContext(req)} :
  \E r \in {IF w.called THEN handleGetResult(req, w.ctx)
            ELSE [status |-> w.status, error |-> w.error, data |-> {}]} :
     /\ last' = [Done("deviceGet", req, r.status, r.error, w.called,
                      GetAuthenticatedUser(req), w.ctx, FALSE, NoJwt)
                   EXCEPT !.data = r.data]
     /\ UNCHANGED <<clock, deploymentMode, accounts, deviceTokens, tokenBlacklist,
                   invalidated, revokedEver, issued, logs>>

\* DELETE /api/device-tokens?id= = withAuthContext(handleDelete).
\* revokedEver remembers the token strings a successful DELETE has revoked.
DeviceDelete(req) ==
  \E w \in {withAuthContext(req)} :
  \E r \in {IF w.called THEN handleDeleteResult(req, w.ctx)
            ELSE [status |-> w.status, error |-> w.error]} :
  LET revoked == w.called /\ r.status = 200
  IN /\ deviceTokens' = IF revoked
                          THEN [deviceTokens EXCEPT ![req.id].revokedAt = clock]
                          ELSE deviceTokens
     /\ revokedEver' = IF revoked
                         THEN revokedEver \cup {deviceTokens[req.id].token}
                         ELSE revokedEver
     /\ last' = Done("deviceDelete", req, r.status, r.error, w.called,
                     GetAuthenticatedUser(req), w.ctx, revoked, NoJwt)
     /\ UNCHANGED <<clock, deploymentMode, accounts, tokenBlacklist, invalidated,
                   issued, logs>>

\* The kiosk page /kindle/[token]: validateDeviceToken and render.
KindlePage(req) ==
  \E auth \in {validateDeviceToken(req.dtoken, "auth" \in req.dbFail)} :
  LET ok == auth.authenticated /\ auth.familyId # Null
  IN /\ last' = Done("kindlePage", req, 200,
                     IF ok THEN Null
                     ELSE IF auth.error # Null THEN auth.error
                     ELSE "Invalid or expired device token",
                     ok, auth, auth, FALSE, NoJwt)
     /\ UNCHANGED <<clock, deploymentMode, accounts, deviceTokens, tokenBlacklist,
                   invalidated, revokedEver, issued, logs>>

VoiceLog(req) ==
  \E auth \in {validateDeviceToken(req.dtoken, "auth" \in req.dbFail)} :
  \E r \in {voiceLog(req)} :
  LET validated == req.scheme = "Bearer"
  IN /\ Len(r.logs) <= MaxLogs
     /\ logs' = r.logs
     /\ last' = Done("voiceLog", req, r.status, r.error, validated,
                     IF validated THEN auth ELSE AuthFail(Null), AuthFail(Null),
                     r.wrote, NoJwt)
     /\ UNCHANGED <<clock, deploymentMode, accounts, deviceTokens, tokenBlacklist,
                   invalidated, revokedEver, issued>>

KindleLog(req) ==
  \E auth \in {validateDeviceToken(req.dtoken, "auth" \in req.dbFail)} :
  \E r \in {kindleLog(req)} :
  LET validated == req.body # "unparseable" /\ req.dtoken # Null
  IN /\ Len(r.logs) <= MaxLogs
     /\ logs' = r.logs
     /\ last' = Done("kindleLog", req, r.status, r.error, validated,
                     IF validated THEN auth ELSE AuthFail(Null), AuthFail(Null),
                     r.wrote, NoJwt)
     /\ UNCHANGED <<clock, deploymentMode, accounts, deviceTokens, tokenBlacklist,
                   invalidated, revokedEver, issued>>

\* issued remembers which device token each magic-link JWT was signed for;
\* the JWT itself does not carry it.
MagicLink(req) ==
  \E auth \in {validateDeviceToken(req.dtoken, "auth" \in req.dbFail)} :
  \E r \in {magicLink(req)} :
  LET validated == req.body # "unparseable" /\ req.dtoken # Null
      entry == [jwt |-> r.jwt, dtoken |-> req.dtoken]
  IN /\ r.status = 200 => (entry \in issued \/ Cardinality(issued) < MaxIssued)
     /\ issued' = IF r.status = 200 THEN issued \cup {entry} ELSE issued
     /\ last' = Done("magicLink", req, r.status, r.error, validated,
                     IF validated THEN auth ELSE AuthFail(Null), AuthFail(Null),
                     FALSE, r.jwt)
     /\ UNCHANGED <<clock, deploymentMode, accounts, deviceTokens, tokenBlacklist,
                   invalidated, revokedEver, logs>>

\* --------------------------------------------------------- token blacklist
\* invalidateToken(t): jwt.decode, then blacklist t until exp * 1000; the
\* call returns true exactly when t decodes and carries a truthy exp.
\* invalidated remembers the tokens for which it has returned true.
invalidateToken(t) == JwtDecodeOK(t) /\ t.exp # 0

BlacklistSet(bl, t) ==
  {e \in bl : e.token # t} \cup {[token |-> t, expiry |-> t.exp * MsPerSecond]}

InvalidateToken(t) ==
  LET ok == invalidateToken(t)
  IN /\ tokenBlacklist' = IF ok THEN BlacklistSet(tokenBlacklist, t)
                          ELSE tokenBlacklist
     /\ invalidated' = IF ok THEN invalidated \cup {t} ELSE invalidated
     /\ last' = Done("invalidateToken", Bearer(t), 0, Null, ok, AuthFail(Null),
                     AuthFail(Null), ok, NoJwt)
     /\ UNCHANGED <<clock, deploymentMode, accounts, deviceTokens, issued, logs, revokedEver>>

\* The setInterval callback: drop every entry whose expiry is behind now.
\* The timer's phase against token expiries is arbitrary, so a run may
\* happen at any clock value.
\* Mutant: an entry is dropped one second before its expiry.
CleanupKeeps_Early(e, now) == ~(now + MsPerSecond > e.expiry)

\* Mutant: an entry is kept for one more second after its expiry.
CleanupKeeps_Late(e, now) == ~(now > e.expiry + MsPerSecond)

CleanupKeeps(e, now) == ~(now > e.expiry)

Cleanup ==
  /\ tokenBlacklist' = {e \in tokenBlacklist : CleanupKeeps(e, clock)}
  /\ last' = Done("cleanup", BaseReq, 0, Null, TRUE, AuthFail(Null),
                  AuthFail(Null), tokenBlacklist' # tokenBlacklist, NoJwt)
  /\ UNCHANGED <<clock, deploymentMode, accounts, deviceTokens, invalidated, revokedEver,
                 issued, logs>>

\* ----------------------------------------------------------------- inputs
FarExp == 9

Admin1 == CaretakerJwt("c1", FarExp)
Admin2 == CaretakerJwt("c3", FarExp)
User1 == CaretakerJwt("c2", FarExp)
SysAdmin == SysAdminJwt(FarExp)
Setup2 == SetupJwt("s2", FarExp)

IssuedJwts == {e.jwt : e \in issued}

Named(t) == [Bearer(t) EXCEPT !.name = "kitchen"]

PostReqs ==
  {Named(t) : t \in {Admin1, Admin2, User1, SysAdmin, Setup2, GarbageToken} \cup IssuedJwts}
  \cup {[Named(Admin1) EXCEPT !.expiresAt = 1200],
        [Named(Admin1) EXCEPT !.body = "badDate"]}
  \cup {[Named(Admin1) EXCEPT !.name = n] : n \in {"missing", "number", "blank"}}
  \cup {[Bearer(Admin1) EXCEPT !.body = "unparseable"],
        [Named(Admin1) EXCEPT !.dbFail = {"handler"}],
        [Named(User1) EXCEPT !.name = "missing"],
        [Named(SysAdmin) EXCEPT !.familyId = "f1"],
        [Named(SysAdmin) EXCEPT !.referer = "f2", !.name = "blank"],
        [Named(Setup2) EXCEPT !.familyId = "f1"],
        [BaseReq EXCEPT !.name = "kitchen"],
        [BaseReq EXCEPT !.name = "kitchen", !.cookie = "c1"]}

DeleteReqs ==
  {[Bearer(t) EXCEPT !.id = i] : t \in {Admin1, Admin2}, i \in 0 .. MaxTokens}
  \cup {[Bearer(t) EXCEPT !.id = 1] : t \in {User1, SysAdmin, GarbageToken}}
  \cup {[Bearer(SysAdmin) EXCEPT !.id = 1, !.familyId = "f1"],
        [Bearer(Admin1) EXCEPT !.id = 1, !.dbFail = {"handler"}]}

GetReqs ==
  {Bearer(t) : t \in {Admin1, Admin2, User1, GarbageToken}}
  \cup {[Bearer(SysAdmin) EXCEPT !.familyId = "f1"],
        [Bearer(Admin1) EXCEPT !.dbFail = {"handler"}]}

DeviceStrings == TokenStrings \cup {"zz"}

PageReqs ==
  {[BaseReq EXCEPT !.dtoken = d] : d \in DeviceStrings}
  \cup {[BaseReq EXCEPT !.dtoken = "d1", !.dbFail = {"auth"}]}

LogBodies == {"unparseable", "noAction", "noBaby", "bottle", "sleep-start",
              "sleep-end", "medicine-missing", "unknown"}

Device(d) == [BaseReq EXCEPT !.scheme = "Bearer", !.dtoken = d, !.body = "bottle"]

VoiceReqs ==
  {[Device("d1") EXCEPT !.body = b] : b \in LogBodies}
  \cup {Device(d) : d \in DeviceStrings \cup {Null}}
  \cup {[Device("d1") EXCEPT !.scheme = s] : s \in {"none", "Basic"}}
  \cup {[Device("d1") EXCEPT !.dbFail = f] : f \in {{"auth"}, {"handler"}}}

KindleReqs ==
  {[Device("d1") EXCEPT !.scheme = "none", !.body = b] : b \in LogBodies}
  \cup {[Device(d) EXCEPT !.scheme = "none"] : d \in DeviceStrings \cup {Null}}
  \cup {[Device("d1") EXCEPT !.scheme = "none", !.dbFail = f] :
          f \in {{"auth"}, {"handler"}}}

MagicReqs ==
  {[BaseReq EXCEPT !.dtoken = d] : d \in DeviceStrings \cup {Null}}
  \cup {[BaseReq EXCEPT !.dtoken = "d1", !.body = "unparseable"]}
  \cup {[BaseReq EXCEPT !.dtoken = "d1", !.dbFail = f] :
          f \in {{"auth"}, {"handler"}}}

SessionReqs == {Bearer(t) : t \in IssuedJwts \cup {User1}}

\* ------------------------------------------------------------------ Init
PlainAccount ==
  [closed |-> FALSE, betaparticipant |-> FALSE, trialEnds |-> NoTime,
   planExpires |-> NoTime, planType |-> "full", familyId |-> "f1",
   caretakerId |-> "c1"]

InitRuntime ==
  /\ clock = StartMs
  /\ deviceTokens = << >>
  /\ tokenBlacklist = {}
  /\ invalidated = {}
  /\ revokedEver = {}
  /\ issued = {}
  /\ logs = << >>
  /\ last = Done("start", BaseReq, 0, Null, FALSE, AuthFail(Null),
                 AuthFail(Null), FALSE, NoJwt)

Init ==
  /\ InitRuntime
  /\ deploymentMode = "selfhosted"
  /\ accounts = [a \in AccountIds |-> PlainAccount]

\* The device-token table: issue, revoke, validate.
Next ==
  \/ Tick(MaxClock)
  \/ \E req \in PostReqs, tok \in TokenStrings : DevicePost(req, tok)
  \/ \E req \in DeleteReqs : DeviceDelete(req)
  \/ \E req \in GetReqs : DeviceGet(req)
  \/ \E req \in PageReqs : KindlePage(req)

Spec == Init /\ [][Next]_vars

\* The kiosk routes that consume a device token, with the table operations
\* of the family-f1 admin.
KioskPostReqs == {[Named(Admin1) EXCEPT !.expiresAt = e] : e \in {0, 1200}}
KioskDeleteReqs == {[Bearer(Admin1) EXCEPT !.id = i] : i \in 1 .. MaxTokens}

NextKiosk ==
  \/ Tick(MaxClock)
  \/ \E req \in KioskPostReqs :
       DevicePost(req, IF req.expiresAt = 0 THEN "d1" ELSE "d2")
  \/ \E req \in KioskDeleteReqs : DeviceDelete(req)
  \/ \E req \in VoiceReqs : VoiceLog(req)
  \/ \E req \in KindleReqs : KindleLog(req)
  \/ \E req \in MagicReqs : MagicLink(req)
  \/ \E req \in PageReqs : KindlePage(req)
  \/ \E req \in SessionReqs : WithAuth(req)

SpecKiosk == Init /\ [][NextKiosk]_vars

\* The blacklist: logout (invalidateToken), the periodic cleanup, and
\* requests carrying the tokens.
Short1 == CaretakerJwt("c1", 2)
Short2 == CaretakerJwt("c2", 3)
NoExp1 == CaretakerJwt("c1", 0)

LogoutTokens == {Short1, Short2, Forged(Short1), NoExp1, GarbageToken}

SessionTokenReqs ==
  {Bearer(t) : t \in LogoutTokens}
  \cup {[Bearer(t) EXCEPT !.cookie = "c2"] : t \in {Short1, GarbageToken, EmptyToken}}
  \cup {[BaseReq EXCEPT !.scheme = "Basic", !.token = Short1, !.cookie = "c2"],
        [BaseReq EXCEPT !.cookie = "c2"]}

NextSession ==
  \/ Tick(MaxSessionClock)
  \/ \E t \in LogoutTokens : InvalidateToken(t)
  \/ Cleanup
  \/ \E req \in SessionTokenReqs : WithAuth(req)

SpecSession == Init /\ [][NextSession]_vars

\* Resolution against every shape of the account row.
AccountRows ==
  {[closed |-> c, betaparticipant |-> b, trialEnds |-> te, planExpires |-> pe,
    planType |-> pt, familyId |-> lk[1], caretakerId |-> lk[2]] :
     c \in BOOLEAN, b \in BOOLEAN, te \in {NoTime, 1000, 1200},
     pe \in {NoTime, 900, 1200}, pt \in {Null, "full"},
     lk \in {<<"f1", "c1">>, <<"f1", Null>>, <<Null, Null>>}}

InitResolve ==
  /\ InitRuntime
  /\ deploymentMode \in {"saas", "selfhosted"}
  /\ accounts \in [AccountIds -> AccountRows]

Account1 == AccountJwt("a1", FarExp)

ResolveReqs ==
  {Bearer(t) : t \in {Account1, AccountJwt("a9", FarExp), Admin1, Admin2, User1,
                      SysAdmin, GarbageToken}}
  \cup {[Bearer(t) EXCEPT !.dbFail = {"auth"}] : t \in {Account1, User1}}
  \cup {[BaseReq EXCEPT !.cookie = c] : c \in {"c2", "c9", "cx"}}
  \cup {[BaseReq EXCEPT !.cookie = "c2", !.dbFail = {"auth"}]}

NextResolve ==
  \/ Tick(MaxClock)
  \/ \E req \in ResolveReqs : WithAuth(req)

SpecResolve == InitResolve /\ [][NextResolve]_vars

\* The five wrappers over every kind of session.
InitWrap ==
  /\ InitRuntime
  /\ deploymentMode = "selfhosted"
  /\ accounts \in [AccountIds ->
                     {[PlainAccount EXCEPT !.closed = c, !.familyId = lk[1],
                                           !.caretakerId = lk[2]] :
                        c \in BOOLEAN,
                        lk \in {<<"f1", "c1">>, <<"f1", "c2">>, <<"f1", Null>>,
                                <<Null, Null>>}}]

Setup1 == SetupJwt("s1", FarExp)
Setup3 == SetupJwt("s3", FarExp)

DeviceJwt == Jwt("regular", "c1", "ADMIN", "Parent", "f1", FALSE, "DEVICE_TOKEN", 0, 1, TRUE)

WrapTokens ==
  {DeviceJwt, Admin1, User1, CaretakerJwt("c0", FarExp), CaretakerJwt("c9", FarExp),
   SysAdmin, Setup1, Account1, GarbageToken, Forged(Admin1),
   CaretakerJwt("c1", 1)}

WrapReqs ==
  {Bearer(t) : t \in WrapTokens}
  \cup {[Bearer(t) EXCEPT !.dbFail = {"wrapper"}] :
          t \in {CaretakerJwt("c0", FarExp), User1}}
  \cup {[Bearer(Account1) EXCEPT !.dbFail = {"auth"}],
        [BaseReq EXCEPT !.cookie = "c0"], [BaseReq EXCEPT !.cookie = "c2"],
        BaseReq}

ContextReqs ==
  WrapReqs
  \cup {[Bearer(t) EXCEPT !.familyId = f] :
          t \in {Setup1, Setup2, Setup3, SysAdmin, User1}, f \in FamilyIds}
  \cup {[Bearer(Setup1) EXCEPT !.familyId = "f2", !.dbFail = {"wrapper"}],
        [Bearer(SysAdmin) EXCEPT !.path = "f1"],
        [Bearer(SysAdmin) EXCEPT !.referer = "f2"],
        [Bearer(SysAdmin) EXCEPT !.path = "f1", !.dbFail = {"wrapper"}],
        [Bearer(SysAdmin) EXCEPT !.path = "setup", !.referer = "family-manager"]}

NextWrap ==
  \/ Tick(MaxClock)
  \/ \E req \in WrapReqs : WithAuth(req)
  \/ \E req \in WrapReqs : WithAdminAuth(req)
  \/ \E req \in WrapReqs : WithSysAdminAuth(req)
  \/ \E req \in WrapReqs : WithAccountOwner(req)
  \/ \E req \in ContextReqs : WithAuthContext(req)

SpecWrap == InitWrap /\ [][NextWrap]_vars

\* ================================================================= claims
ValidateOps == {"voiceLog", "kindleLog", "magicLink", "kindlePage"}

\* The last operation called validateDeviceToken and got an answer.
Validated ==
  /\ last.op \in ValidateOps
  /\ (last.auth.authenticated \/ last.auth.error # Null)

\* C1 (as stated): once a DELETE has revoked a device token, every later
\* validateDeviceToken call for its string answers authenticated = false
\* with 'Device token has been revoked', and no kiosk route writes a log row
\* or issues a JWT for it.
C1_RevokedAlwaysReportsRevoked ==
  (last.op \in ValidateOps /\ last.req.dtoken \in revokedEver) =>
    /\ ~last.wrote
    /\ last.jwt = NoJwt
    /\ Validated => /\ ~last.auth.authenticated
                    /\ last.auth.error = "Device token has been revoked"

\* C1 (amended): once a DELETE has revoked a device token, every later
\* validateDeviceToken call for its string answers authenticated = false,
\* with 'Device token has been revoked' when the token lookup answers and
\* 'Device token validation failed' when it throws; no kiosk route writes a
\* log row or issues a JWT for it.
C1_RevokedStaysRejected ==
  (last.op \in ValidateOps /\ last.req.dtoken \in revokedEver) =>
    /\ ~last.wrote
    /\ last.jwt = NoJwt
    /\ Validated =>
         /\ ~last.auth.authenticated
         /\ last.auth.error = IF "auth" \in last.req.dbFail
                                THEN "Device token validation failed"
                                ELSE "Device token has been revoked"

\* A revoked first token is refused by voice/log after a second token has
\* been created.
C1_Witness ==
  /\ last.op = "voiceLog"
  /\ Validated
  /\ last.req.dtoken \in revokedEver
  /\ last.auth.error = "Device token has been revoked"
  /\ Len(deviceTokens) = 2
  /\ deviceTokens[1].token = last.req.dtoken
  /\ deviceTokens[2].revokedAt = NoTime

\* C2: a JWT issued by magic-link for device token D is no longer accepted
\* by getAuthenticatedUser once D has been revoked.
C2_MagicJwtDiesWithDeviceToken ==
  (/\ last.op = "withAuth"
   /\ \E e \in issued : e.jwt = last.req.token /\ e.dtoken \in revokedEver)
    => ~last.auth.authenticated

\* C3: after invalidateToken(t) has returned true, every later request
\* whose Bearer token is t is unauthenticated, whatever the cleanup did in
\* between.
C3_InvalidatedNeverAuthenticates ==
  (/\ last.op = "withAuth"
   /\ last.req.scheme = "Bearer"
   /\ last.req.token \in invalidated)
    => ~last.auth.authenticated

\* An invalidated, well-signed token that the cleanup has already dropped
\* is refused by JWT verification.
C3_Witness ==
  /\ last.op = "withAuth"
  /\ last.req.scheme = "Bearer"
  /\ last.req.token \in invalidated
  /\ last.req.token.sigOK
  /\ ~Blacklisted(last.req.token)
  /\ last.auth.error = "Invalid or expired token"

WrapperOps == {"withAuth", "withAdminAuth", "withSysAdminAuth",
               "withAccountOwner", "withAuthContext"}

\* C4: each of the five wrappers answers an unauthenticated request with
\* 401 'Authentication required' and does not invoke the handler; in
\* particular such a request never gets 403.
C4_UnauthenticatedGets401 ==
  (last.op \in WrapperOps /\ ~last.auth.authenticated) =>
    /\ last.status = 401
    /\ last.error = "Authentication required"
    /\ ~last.called

\* withAdminAuth turns away a request with a forged token with 401.
C4_Witness ==
  /\ last.op = "withAdminAuth"
  /\ last.req.token = Forged(Admin1)
  /\ ~last.auth.authenticated
  /\ last.status = 401

\* C5: withAdminAuth invokes the handler exactly for an authenticated
\* request with role ADMIN, or isSysAdmin, or whose caretakerId is a
\* non-deleted caretaker with loginId '00' found by a lookup that did not
\* throw; every other authenticated request gets 403 'Admin access required'.
C5_AdminGate ==
  (last.op = "withAdminAuth" /\ last.auth.authenticated) =>
    LET cid == last.auth.caretakerId
        system == /\ cid \in CaretakerIds
                  /\ Caretakers[cid].loginId = "00"
                  /\ ~Caretakers[cid].deleted
                  /\ "wrapper" \notin last.req.dbFail
        allowed == \/ last.auth.caretakerRole = "ADMIN"
                   \/ last.auth.isSysAdmin
                   \/ system
    IN /\ last.called <=> allowed
       /\ ~allowed => /\ last.status = 403
                      /\ last.error = "Admin access required"

\* The system caretaker, whose role is not ADMIN, is let through.
C5_Witness ==
  /\ last.op = "withAdminAuth"
  /\ last.auth.authenticated
  /\ last.auth.caretakerId = "c0"
  /\ last.auth.caretakerRole # "ADMIN"
  /\ last.called

\* C6: withSysAdminAuth invokes the handler exactly when the request is
\* authenticated with isSysAdmin; an authenticated request without it
\* (setup-token, account and device-token sessions included) gets 403
\* 'System administrator access required'.
C6_SysAdminGate ==
  last.op = "withSysAdminAuth" =>
    /\ last.called <=> (last.auth.authenticated /\ last.auth.isSysAdmin)
    /\ (last.auth.authenticated /\ ~last.auth.isSysAdmin) =>
         /\ last.status = 403
         /\ last.error = "System administrator access required"
    /\ (/\ last.auth.authenticated
        /\ \/ last.auth.isSetupAuth
           \/ last.auth.isAccountAuth
           \/ last.auth.authType = "DEVICE_TOKEN") => last.status = 403

\* A setup-token session, which carries the ADMIN role, is refused.
C6_Witness ==
  /\ last.op = "withSysAdminAuth"
  /\ last.auth.authenticated
  /\ last.auth.isSetupAuth
  /\ last.auth.caretakerRole = "ADMIN"
  /\ last.status = 403

\* The Bearer token of the last request, when it carries a non-empty one.
HasBearer(req) == req.scheme = "Bearer" /\ req.token.kind # "empty"

\* The family whose account decides a caretaker session: the token's
\* familyId, or the family of the cookie's caretaker row.
SessionFamily(req) ==
  IF HasBearer(req) THEN req.token.familyId
  ELSE IF req.cookie \in CaretakerIds /\ ~Caretakers[req.cookie].deleted
    THEN Caretakers[req.cookie].familyId
  ELSE Null

IsAccountSession(req) ==
  HasBearer(req) /\ req.token.kind = "account" /\ req.token.sub \in AccountIds

IsCaretakerSession(req) ==
  /\ ~(HasBearer(req) /\ req.token.kind # "regular")
  /\ SessionFamily(req) \in FamilyIds
  /\ \E a \in AccountIds : accounts[a].familyId = SessionFamily(req)

\* The account row behind the last request (only read when there is one).
SessionAccount(req) ==
  IF IsAccountSession(req) THEN accounts[req.token.sub]
  ELSE accounts[CHOOSE a \in AccountIds : accounts[a].familyId = SessionFamily(req)]

\* The family lookup of a caretaker JWT is skipped for a sysadmin token and
\* swallowed when it throws.
LookupSkipped(req) ==
  /\ HasBearer(req)
  /\ req.token.kind = "regular"
  /\ (req.token.isSysAdmin \/ "auth" \in req.dbFail)

DatesSayExpired(acct, now) ==
  \/ (acct.trialEnds # NoTime /\ now > acct.trialEnds)
  \/ (acct.trialEnds = NoTime /\ acct.planExpires # NoTime /\ now > acct.planExpires)
  \/ (acct.trialEnds = NoTime /\ acct.planExpires = NoTime /\ acct.planType = Null)

ShouldBeExpired(acct, now) ==
  /\ deploymentMode = "saas"
  /\ ~acct.betaparticipant
  /\ acct.familyId # Null
  /\ DatesSayExpired(acct, now)

\* The last operation authenticated a session that has a non-closed account.
AuthenticatedWithAccount ==
  /\ last.op = "withAuth"
  /\ last.auth.authenticated
  /\ (IsAccountSession(last.req) \/ IsCaretakerSession(last.req))
  /\ ~SessionAccount(last.req).closed

\* C8 (as stated): for a non-closed account an authenticated result carries
\* isExpired = TRUE exactly when the deployment mode is 'saas', the account
\* is not a beta participant and has a family, and trialEnds is set and
\* passed, or trialEnds is unset and planExpires is set and passed, or both
\* are unset and planType is empty; in every other case isExpired is FALSE.
C8_IsExpiredExactly ==
  AuthenticatedWithAccount =>
    (last.auth.isExpired <=> ShouldBeExpired(SessionAccount(last.req), last.at))

\* C8 (amended): the flag follows the stated formula for account JWTs,
\* cookies, and caretaker JWTs whose family lookup ran and did not throw; a
\* caretaker JWT whose lookup threw is authenticated with isExpired = FALSE
\* whatever the dates say.
C8_IsExpiredWhenLookedUp ==
  AuthenticatedWithAccount =>
    IF LookupSkipped(last.req)
      THEN ~last.auth.isExpired
      ELSE (last.auth.isExpired <=> ShouldBeExpired(SessionAccount(last.req), last.at))

\* trialEnds is set and not passed while planExpires is passed: the trial
\* date wins and the session is not expired.
C8_Witness ==
  /\ AuthenticatedWithAccount
  /\ deploymentMode = "saas"
  /\ ~SessionAccount(last.req).betaparticipant
  /\ SessionAccount(last.req).trialEnds # NoTime
  /\ last.at <= SessionAccount(last.req).trialEnds
  /\ SessionAccount(last.req).planExpires # NoTime
  /\ last.at > SessionAccount(last.req).planExpires
  /\ ~LookupSkipped(last.req)
  /\ ~last.auth.isExpired

\* The last validation was asked about a stored row that had expired by then.
ValidatedExpiredRow ==
  /\ Validated
  /\ TokenRow(last.req.dtoken) # 0
  /\ deviceTokens[TokenRow(last.req.dtoken)].expiresAt # NoTime
  /\ last.at > deviceTokens[TokenRow(last.req.dtoken)].expiresAt

\* C9 (as stated): validateDeviceToken rejects a stored token whose expiresAt
\* is set and earlier than the current time with 'Device token has expired',
\* or with 'Device token has been revoked' when the row is also revoked.
C9_ExpiredAlwaysReportsExpired ==
  ValidatedExpiredRow =>
    /\ ~last.auth.authenticated
    /\ last.auth.error =
         IF deviceTokens[TokenRow(last.req.dtoken)].revokedAt # NoTime
           THEN "Device token has been revoked"
           ELSE "Device token has expired"

\* What validateDeviceToken answers for an expired row: revoked before
\* expired when the lookup succeeds, the generic failure when it throws.
ExpiredRowRejected ==
  ValidatedExpiredRow =>
    /\ ~last.auth.authenticated
    /\ last.auth.error =
         IF "auth" \in last.req.dbFail
           THEN "Device token validation failed"
         ELSE IF deviceTokens[TokenRow(last.req.dtoken)].revokedAt # NoTime
           THEN "Device token has been revoked"
           ELSE "Device token has expired"

\* An unknown token string is reported before anything else.
UnknownReportedFirst ==
  (Validated /\ TokenRow(last.req.dtoken) = 0 /\ "auth" \notin last.req.dbFail)
    => last.auth.error = "Invalid device token"

\* No step changes the expiresAt of a stored row or moves the clock back.
ExpiryIsFixed ==
  /\ clock' >= clock
  /\ Len(deviceTokens') >= Len(deviceTokens)
  /\ \A i \in DOMAIN deviceTokens :
       /\ deviceTokens'[i].expiresAt = deviceTokens[i].expiresAt
       /\ deviceTokens'[i].token = deviceTokens[i].token

\* C9 (amended): a stored token whose expiresAt is set and earlier than the
\* current time is rejected by every validation from then on, because no
\* step changes expiresAt and the clock only advances; the error is
\* 'Device token has been revoked' when the row is also revoked, 'Device
\* token has expired' otherwise, and 'Device token validation failed' when
\* the lookup throws; an unknown token is reported before either.
C9_ExpiredStaysRejected ==
  /\ [](ExpiredRowRejected /\ UnknownReportedFirst)
  /\ [][ExpiryIsFixed]_vars

\* A row both revoked and expired is reported as revoked.
C9_Witness ==
  /\ ValidatedExpiredRow
  /\ deviceTokens[TokenRow(last.req.dtoken)].revokedAt # NoTime
  /\ last.auth.error = "Device token has been revoked"

\* The last operation was a POST /api/device-tokens that reached handlePost.
PostHandled == last.op = "devicePost" /\ last.called

PostIsAdmin == last.ctx.caretakerRole = "ADMIN" \/ last.ctx.isSysAdmin

PostStatuses ==
  PostHandled =>
    /\ ~PostIsAdmin => last.status = 403
    /\ (PostIsAdmin /\ last.ctx.familyId = Null) => last.status = 403
    /\ (PostIsAdmin /\ last.ctx.familyId # Null /\ last.req.body = "unparseable")
         => last.status = 500
    /\ (PostIsAdmin /\ last.ctx.familyId # Null /\ last.req.body # "unparseable"
        /\ ~NameOK(last.req.name))
         => last.status = 400
    /\ last.status \in {200, 400, 403, 500}

\* A POST that does not answer 200 leaves the rows as they were.
PostFailureWritesNothing ==
  (last'.op = "devicePost" /\ last'.status # 200)
    => /\ deviceTokens' = deviceTokens
       /\ last'.status \in {400, 401, 403, 500}

DeleteStep ==
  /\ clock' = clock
  /\ last'.op = "deviceDelete"
  /\ last'.at = clock
  /\ last'.called
  /\ (last'.ctx.caretakerRole = "ADMIN" \/ last'.ctx.isSysAdmin)
  /\ last'.ctx.familyId # Null
  /\ last'.req.id # 0

\* The addressed row exists and belongs to the caller's family context.
DeleteOwnRow ==
  /\ last'.req.id \in DOMAIN deviceTokens
  /\ deviceTokens[last'.req.id].familyId = last'.ctx.familyId

\* A successful DELETE sets revokedAt of the addressed row and nothing else.
DeleteFrame ==
  (DeleteStep /\ last'.status = 200) =>
    /\ DeleteOwnRow
    /\ deviceTokens' = [deviceTokens EXCEPT ![last'.req.id].revokedAt = clock]
    /\ deviceTokens'[last'.req.id].revokedAt # NoTime

\* C11 (as stated): a DELETE for an id that does not exist or belongs to
\* another family answers 404 'Device token not found' and changes no row;
\* a successful DELETE sets revokedAt of exactly the addressed row.
C11_ForeignIdAlways404 ==
  [][/\ (DeleteStep /\ ~DeleteOwnRow) =>
          /\ last'.status = 404
          /\ last'.error = "Device token not found"
          /\ deviceTokens' = deviceTokens
     /\ DeleteFrame]_vars

\* C11 (amended): a DELETE for an id that does not exist or belongs to
\* another family changes no row and answers 404 'Device token not found',
\* or 500 'Failed to revoke device token' when the lookup throws; a DELETE
\* that does not answer 200 changes no row; a successful DELETE addresses a
\* row of the caller's family and sets revokedAt of exactly that row.
C11_DeleteOnlyOwnFamily ==
  [][/\ (DeleteStep /\ ~DeleteOwnRow) =>
          /\ deviceTokens' = deviceTokens
          /\ IF "handler" \in last'.req.dbFail
               THEN last'.status = 500 /\ last'.error = "Failed to revoke device token"
               ELSE last'.status = 404 /\ last'.error = "Device token not found"
     /\ (last'.op = "deviceDelete" /\ clock' = clock /\ last'.status # 200)
          => deviceTokens' = deviceTokens
     /\ DeleteFrame]_vars

\* An admin of family f2 asked to revoke a row of family f1 and got 404.
C11_Witness ==
  /\ last.op = "deviceDelete"
  /\ last.called
  /\ last.req.id \in DOMAIN deviceTokens
  /\ last.ctx.familyId \in FamilyIds
  /\ deviceTokens[last.req.id].familyId # last.ctx.familyId
  /\ deviceTokens[last.req.id].revokedAt = NoTime
  /\ last.status = 404

\* item's characters are a prefix of chars, n of them at most.
ExposesAtMost(preview, chars, n) ==
  /\ Len(preview) <= n + Len(Ellipsis)
  /\ \A i \in 1 .. Len(preview) - Len(Ellipsis) : preview[i] = chars[i]
  /\ preview # chars

DeviceTokenOps == {"devicePost", "deviceGet", "deviceDelete"}

\* C12: a response of /api/device-tokens carries a full token string only
\* when it answers the POST that created that token; GET lists only rows
\* whose familyId is the caller's family context and exposes of each token
\* at most its first 8 characters (tokenPreview), never the full string.
C12_FullTokenOnlyOnCreation ==
  last.op \in DeviceTokenOps =>
    \A item \in last.data :
      /\ item.id \in DOMAIN deviceTokens
      /\ item.token # << >> =>
           /\ last.op = "devicePost"
           /\ last.status = 200
           /\ item.id = Len(deviceTokens)
           /\ item.token = TokenChars(deviceTokens[item.id].token)
      /\ last.op = "deviceGet" =>
           /\ deviceTokens[item.id].familyId = last.ctx.familyId
           /\ item.token = << >>
           /\ ExposesAtMost(item.tokenPreview,
                            TokenChars(deviceTokens[item.id].token), PreviewLen)

\* A GET of family f2's admin lists f2's row while family f1 has one too.
C12_Witness ==
  /\ last.op = "deviceGet"
  /\ last.status = 200
  /\ last.ctx.familyId = "f2"
  /\ last.data # {}
  /\ \E i \in DOMAIN deviceTokens : deviceTokens[i].familyId = "f1"

\* This step is a POST /api/voice/log.
VoiceStep ==
  /\ clock' = clock
  /\ last'.op = "voiceLog"
  /\ last'.at = clock

\* The request of this step carries no Bearer header, or a token string that
\* is not stored, or one whose row is revoked or has expired.
VoiceTokenBad ==
  \/ last'.req.scheme # "Bearer"
  \/ TokenRow(last'.req.dtoken) = 0
  \/ deviceTokens[TokenRow(last'.req.dtoken)].revokedAt # NoTime
  \/ /\ deviceTokens[TokenRow(last'.req.dtoken)].expiresAt # NoTime
     /\ clock > deviceTokens[TokenRow(last'.req.dtoken)].expiresAt

\* C13: a POST /api/voice/log with no Bearer header, or whose token is
\* unknown, revoked or expired, gets 401 and creates or updates no feed,
\* diaper, sleep or medicine log row.
C13_VoiceLogNeedsDeviceToken ==
  [][(VoiceStep /\ VoiceTokenBad) =>
       /\ last'.status = 401
       /\ last'.error # Null
       /\ logs' = logs]_vars

\* A revoked token asked to end the open sleep session and was refused.
C13_Witness ==
  /\ last.op = "voiceLog"
  /\ last.req.scheme = "Bearer"
  /\ last.req.body = "sleep-end"
  /\ TokenRow(last.req.dtoken) # 0
  /\ deviceTokens[TokenRow(last.req.dtoken)].revokedAt # NoTime
  /\ last.status = 401
  /\ ActiveSleep("f1") # 0

\* All six API routes on one device-token table: the error answers of
\* /api/device-tokens, /api/auth/magic-link, /api/voice/log and
\* /api/kindle/log.
RoutePostReqs ==
  {Named(t) : t \in {Admin1, User1, SysAdmin, GarbageToken}}
  \cup {[Named(Admin1) EXCEPT !.name = "blank"],
        [Bearer(Admin1) EXCEPT !.body = "unparseable"],
        [Named(Admin1) EXCEPT !.expiresAt = 1200]}

NextRoutes ==
  \/ Tick(MaxClock)
  \/ \E req \in RoutePostReqs : DevicePost(req, "d1")
  \/ \E req \in DeleteReqs : DeviceDelete(req)
  \/ \E req \in GetReqs : DeviceGet(req)
  \/ \E req \in VoiceReqs : VoiceLog(req)
  \/ \E req \in KindleReqs : KindleLog(req)
  \/ \E req \in MagicReqs : MagicLink(req)

SpecRoutes == Init /\ [][NextRoutes]_vars

RouteOps == {"devicePost", "deviceGet", "deviceDelete", "magicLink",
             "voiceLog", "kindleLog"}

JsonErrorStatuses == {400, 401, 403, 404, 500}

\* C14 (as stated): every error outcome of the device-tokens, magic-link,
\* voice/log and kindle/log routes is a JSON {success:false, error} payload
\* with a status in {400, 401, 403, 404, 500}.
C14_EveryErrorIsJson ==
  (last.op \in RouteOps /\ last.error # Null) => last.status \in JsonErrorStatuses

\* C14 (amended): every error outcome of the device-tokens, magic-link and
\* voice/log routes is a JSON {success:false, error} payload with a status
\* in {400, 401, 403, 404, 500}, and an answer of these routes without an
\* error has status 200; every outcome of kindle/log, error or not, is a
\* 303 redirect that carries the error text, if any, in its query string.
C14_ErrorsJsonExceptKindle ==
  /\ (last.op \in RouteOps \ {"kindleLog"}) =>
       IF last.error # Null THEN last.status \in JsonErrorStatuses
       ELSE last.status = 200
  /\ last.op = "kindleLog" => last.status = 303

\* The magic-link route refused a revoked device token with a JSON 401.
C14_Witness ==
  /\ last.op = "magicLink"
  /\ last.status = 401
  /\ last.error = "Device token has been revoked"

\* The last operation was a withAuthContext route called with a setup token
\* and a familyId query parameter.
SetupWithFamily ==
  /\ last.op = "withAuthContext"
  /\ last.auth.authenticated
  /\ last.auth.isSetupAuth
  /\ last.req.familyId # Null

\* The FamilySetup row of the token exists and is associated with f.
SetupAuthorizedFor(tok, f) ==
  tok \in DOMAIN FamilySetups /\ FamilySetups[tok] = f

\* C15: a setup-token request that supplies a familyId reaches the handler,
\* with that familyId, only if the FamilySetup row of the token exists and is
\* associated with that family; otherwise the answer is 403 'Setup token is
\* not authorized for this family' (500 if the lookup fails) and the handler
\* is not invoked.
C15_SetupTokenBoundToFamily ==
  SetupWithFamily =>
    IF "wrapper" \in last.req.dbFail
      THEN ~last.called /\ last.status = 500
    ELSE IF SetupAuthorizedFor(last.auth.setupToken, last.req.familyId)
      THEN last.called /\ last.ctx.familyId = last.req.familyId
    ELSE /\ ~last.called
         /\ last.status = 403
         /\ last.error = "Setup token is not authorized for this family"

\* This step is a request resolved by getAuthenticatedUser that carries a
\* Bearer token.
BearerStep ==
  /\ clock' = clock
  /\ tokenBlacklist' = tokenBlacklist
  /\ last'.op = "withAuth"
  /\ last'.at = clock
  /\ HasBearer(last'.req)

\* The token is blacklisted, malformed (undecodable or badly signed) or
\* past its exp.
BearerUnusable(t) ==
  \/ \E e \in tokenBlacklist : e.token = t
  \/ t.kind = "garbage"
  \/ ~t.sigOK
  \/ (t.exp # 0 /\ clock \div MsPerSecond >= t.exp)

\* C16: whenever a request carries a Bearer token the result of
\* getAuthenticatedUser is the one the same request gets without its
\* caretakerId cookie, and a blacklisted, malformed or expired Bearer token
\* yields authenticated = false whatever the cookie is.
C16_CookieOnlyWithoutBearer ==
  [][BearerStep =>
       /\ last'.auth = GetAuthenticatedUser([last'.req EXCEPT !.cookie = Null])
       /\ BearerUnusable(last'.req.token) => ~last'.auth.authenticated]_vars

\* A blacklisted token came with the cookie of caretaker c2 and was refused.
C16_Witness ==
  /\ last.op = "withAuth"
  /\ HasBearer(last.req)
  /\ last.req.cookie = "c2"
  /\ last.req.token \in invalidated
  /\ ~last.auth.authenticated
  /\ last.auth.error = "Token has been invalidated"

\* Every invalidated token whose expiry has not passed is in the blacklist,
\* stored with its own expiry.
UnexpiredStillListed ==
  \A t \in invalidated :
    ~(t.exp * MsPerSecond < clock) =>
      [token |-> t, expiry |-> t.exp * MsPerSecond] \in tokenBlacklist

\* A cleanup run removes exactly the entries whose stored expiry is earlier
\* than the current time; an invalidateToken call only stores its token; no
\* other step touches the blacklist.
EvictByExpiryOnly ==
  /\ (last'.op = "cleanup" /\ clock' = clock) =>
       tokenBlacklist' = {e \in tokenBlacklist : ~(e.expiry < clock)}
  /\ (last'.op = "invalidateToken" /\ clock' = clock) =>
       \A e \in tokenBlacklist :
         e \in tokenBlacklist' \/ e.token = last'.req.token
  /\ (last'.op \notin {"cleanup", "invalidateToken"} \/ clock' # clock) =>
       tokenBlacklist' = tokenBlacklist

\* C17: the blacklist cleanup evicts by expiry-time comparison only: a run
\* removes exactly the entries whose stored expiry is earlier than the
\* current time; hence after any sequence of invalidateToken calls and
\* cleanup runs every invalidated token whose expiry has not passed is still
\* in the blacklist.
C17_EvictionByExpiryOnly ==
  /\ []UnexpiredStillListed
  /\ [][EvictByExpiryOnly]_vars

\* A cleanup run dropped an expired entry and kept an unexpired one.
C17_Witness ==
  /\ last.op = "cleanup"
  /\ last.at = clock
  /\ last.wrote
  /\ \E t \in invalidated : ~Blacklisted(t) /\ t.exp * MsPerSecond < clock
  /\ \E t \in invalidated : Blacklisted(t) /\ t.exp * MsPerSecond > clock

====
